---- MODULE Spec2Model ----
(***************************************************************************)
(* Model of ProceduralWorld (biome map, noise cache, chunk generation and  *)
(* unloading, entity pool) and of the streaming loop update_chunks.        *)
(*                                                                         *)
(* Numbers.  World x/z coordinates and chunk coordinates are integers.     *)
(* Heights are floats in the source; here every height is an integer       *)
(* number of sixteenths (y = 2 is 32).  opensimplex.noise2 returns a float *)
(* in [-1, 1]; here noise2 returns eighths, -8..8, so that                 *)
(*   noise * 4   is  noise2 * 8 sixteenths,                                *)
(*   noise * 0.5 is  noise2 * 1 sixteenths.                                *)
(* The arguments of noise2 are counted in twentieths (x / 20 is x).        *)
(***************************************************************************)
EXTENDS Integers, Sequences, FiniteSets, TLC

(* chunk_size is 16 and render_distance is 4 in the source; every          *)
(* definition below is written for any value, and the model is checked at  *)
(* the small values set here.                                              *)
chunk_size == 2
render_distance == 1
(* Number of API calls / ticks in one behaviour.                           *)
MaxSteps == 3

VARIABLES biome_map, loaded_chunks, chunk_pool, noise_cache, entities,
          tree_entities, noise_calls, player_position, last_op, steps,
          seed_points, calls, first_gen

vars == <<biome_map, loaded_chunks, chunk_pool, noise_cache, entities,
          tree_entities, noise_calls, player_position, last_op, steps,
          seed_points, calls, first_gen>>

(***************************************************************************)
(* Python helpers                                                          *)
(***************************************************************************)
(* range(a, b) as a sequence *)
range(a, b) == [i \in 1..(IF b > a THEN b - a ELSE 0) |-> a + i - 1]

Last(s) == s[Len(s)]
Front(s) == SubSeq(s, 1, Len(s) - 1)

(* dict with insertion order: a sequence of [pos, entities] items *)
dict_keys(d) == [i \in 1..Len(d) |-> d[i].pos]
dict_keyset(d) == {d[i].pos : i \in 1..Len(d)}
dict_index(d, k) == CHOOSE i \in 1..Len(d) : d[i].pos = k
dict_get(d, k) == d[dict_index(d, k)].entities
dict_set(d, k, v) ==
    IF k \in dict_keyset(d)
    THEN [d EXCEPT ![dict_index(d, k)] = [pos |-> k, entities |-> v]]
    ELSE Append(d, [pos |-> k, entities |-> v])
dict_del(d, k) ==
    LET i == dict_index(d, k)
    IN  SubSeq(d, 1, i - 1) \o SubSeq(d, i + 1, Len(d))

(* d[k] = v on a dict kept as a function *)
dict_put(d, k, v) == (k :> v) @@ d

(***************************************************************************)
(* Collaborators: the noise source, the hash of a seed point, the host's   *)
(* Entity constructor.                                                     *)
(***************************************************************************)
(* opensimplex.noise2: a fixed, pure function of its two arguments.  The   *)
(* library's table is replaced by a small arithmetic one with the same     *)
(* range.                                                                  *)
noise2(u, v) == ((2 * u + 8 * v + 4) % 17) - 8

(* hash((px, pz)) of a seed point: a fixed function that may be negative.  *)
hash(p) == 3 * p[1] - 5 * p[2]

(* Entity(): a fresh, enabled host object with default attributes.  A      *)
(* position is <<x, y, z>> with y in sixteenths; a scale of 1 is 16.       *)
Entity == [model |-> "none", position |-> <<0, 0, 0>>,
           color |-> <<"white", "white", 0>>, scale |-> <<16, 16, 16>>,
           collider |-> "none", enabled |-> TRUE]

(* lerp(a, b, t) is kept symbolic: both endpoints and the parameter.       *)
lerp(a, b, t) == <<a, b, t>>

(***************************************************************************)
(* ProceduralWorld                                                         *)
(***************************************************************************)
(* The seed lists random.uniform may produce at construction (8 points in  *)
(* [-16, 16] x [-16, 16]); integer-valued points only.                     *)
PointLists ==
    { << <<-1, 0>>, <<1, 0>>, <<0, 6>>, <<-16, -16>>,
         <<16, 16>>, <<5, -7>>, <<-9, 3>>, <<1, 0>> >>,
      << <<2, 2>>, <<-2, -2>>, <<12, 0>>, <<0, -12>>,
         <<-16, 16>>, <<16, -16>>, <<7, 7>>, <<-7, 7>> >> }

(* math.dist compared through its square *)
dist2(a, b) == (a[1] - b[1]) * (a[1] - b[1]) + (a[2] - b[2]) * (a[2] - b[2])

(* min that keeps the last element with the smallest key *)
closest_last(points, x, z) ==
    LET i == CHOOSE i \in 1..Len(points) :
                 /\ \A j \in 1..Len(points) :
                        dist2(<<x, z>>, points[i]) <= dist2(<<x, z>>, points[j])
                 /\ \A j \in (i + 1)..Len(points) :
                        dist2(<<x, z>>, points[j]) > dist2(<<x, z>>, points[i])
    IN  points[i]

(* min(points, key=...): the first element with the smallest key *)
closest(points, x, z) ==
    LET i == CHOOSE i \in 1..Len(points) :
                 /\ \A j \in 1..Len(points) :
                        dist2(<<x, z>>, points[i]) <= dist2(<<x, z>>, points[j])
                 /\ \A j \in 1..(i - 1) :
                        dist2(<<x, z>>, points[j]) > dist2(<<x, z>>, points[i])
    IN  points[i]

(* biome map whose remainder keeps the sign of the hash *)
generate_biome_map_trunc(points) ==
    [x \in -32..31 |-> [z \in -32..31 |->
        LET h == hash(closest(points, x, z))
        IN  IF h < 0 THEN -((-h) % 4) ELSE h % 4]]

(* The dict keyed by (x, z) is kept as a function of x whose values are    *)
(* functions of z: the key (x, z) is present when x is in the domain and z *)
(* is in the domain of the row of x.                                       *)
generate_biome_map(points) ==
    [x \in -32..31 |-> [z \in -32..31 |-> hash(closest(points, x, z)) % 4]]

(* key in self.biome_map *)
biome_has(bm, key) == key[1] \in DOMAIN bm /\ key[2] \in DOMAIN bm[key[1]]

(* self.biome_map.get(key, default) *)
biome_get(bm, key, default) ==
    IF biome_has(bm, key) THEN bm[key[1]][key[2]] ELSE default

(* get_noise that computes and stores on every call *)
get_noise_uncached(w, x, z) ==
    [w EXCEPT
       !.noise_cache = dict_put(@, <<x, z>>, noise2(x, z) * 8),
       !.noise_calls = dict_put(@, <<x, z>>,
                                IF <<x, z>> \in DOMAIN @ THEN @[<<x, z>>] + 1
                                ELSE 1),
       !.ret = noise2(x, z) * 8]

(* get_noise that caches the noise before the amplitude is applied *)
get_noise_store_raw(w, x, z) ==
    IF <<x, z>> \notin DOMAIN w.noise_cache
    THEN [w EXCEPT
            !.noise_cache = dict_put(@, <<x, z>>, noise2(x, z)),
            !.noise_calls = dict_put(@, <<x, z>>,
                                     IF <<x, z>> \in DOMAIN @ THEN @[<<x, z>>] + 1
                                     ELSE 1),
            !.ret = noise2(x, z) * 8]
    ELSE [w EXCEPT !.ret = w.noise_cache[<<x, z>>]]

(* get_noise: w is the world, the result is the world with ret set *)
get_noise(w, x, z) ==
    IF <<x, z>> \notin DOMAIN w.noise_cache
    THEN [w EXCEPT
            !.noise_cache = dict_put(@, <<x, z>>, noise2(x, z) * 8),
            !.noise_calls = dict_put(@, <<x, z>>,
                                     IF <<x, z>> \in DOMAIN @ THEN @[<<x, z>>] + 1
                                     ELSE 1),
            !.ret = noise2(x, z) * 8]
    ELSE [w EXCEPT !.ret = w.noise_cache[<<x, z>>]]

get_biome_color(biome, y) ==
    CASE biome = 0 -> lerp("green", "lime", y)
      [] biome = 1 -> lerp("orange", "yellow", y)
      [] biome = 2 -> lerp("gray", "white", y)
      [] biome = 3 -> lerp("blue", "cyan", y)
      [] OTHER -> <<"white", "white", 0>>

(* acquire that never looks at the pool *)
get_chunk_entity_fresh(w) ==
    [w EXCEPT !.entities = Append(@, Entity), !.ret = Len(w.entities) + 1]

get_chunk_entity(w) ==
    IF w.chunk_pool # <<>>
    THEN [w EXCEPT !.chunk_pool = Front(@), !.ret = Last(w.chunk_pool)]
    ELSE [w EXCEPT !.entities = Append(@, Entity), !.ret = Len(w.entities) + 1]

(* foliage primitives i..height-1 of one tree; i / height is counted in   *)
(* sixtieths, so the scale 2 - i / height is 120 - 60 * i / height         *)
RECURSIVE foliage(_, _, _, _, _)
foliage(x, y, z, height, i) ==
    IF i >= height THEN <<>>
    ELSE <<[model |-> "sphere",
            position |-> <<x, y + (height - i) * 16, z>>,
            color |-> lerp("green", "lime", (60 * i) \div height),
            scale |-> 120 - (60 * i) \div height,
            collider |-> "none"]>> \o foliage(x, y, z, height, i + 1)

(* height is the value random.randint(3, 6) returned *)
generate_procedural_tree(w, x, y, z, height) ==
    LET trunk == [model |-> "cube", position |-> <<x, y, z>>,
                  color |-> <<"brown", "brown", 0>>,
                  scale |-> <<8, height * 16, 8>>,
                  collider |-> "box"]
    IN  [w EXCEPT !.tree_entities = @ \o <<trunk>> \o foliage(x, y, z, height, 0)]

(* ground block that attaches a collider but never removes one *)
ground_block_stale_collider(e, wx, y, wz, color) ==
    [e EXCEPT !.model = "cube",
              !.position = <<wx, y, wz>>,
              !.color = color,
              !.scale = <<16, 16, 16>>,
              !.collider = IF y <= 2 * 16 THEN "box" ELSE @]

(* Lines 64-68: the attributes generate_chunk writes on the handle e it    *)
(* acquired (e is the host object as it was before).                       *)
ground_block(e, wx, y, wz, color) ==
    [e EXCEPT !.model = "cube",
              !.position = <<wx, y, wz>>,
              !.color = color,
              !.scale = <<16, 16, 16>>,
              !.collider = IF y <= 2 * 16 THEN "box" ELSE "none"]

(* tree condition that lets the threshold height through *)
tree_gate_ge(y, wx, wz, rnd) == y >= 2 * 16 /\ <<wx, wz>> \in DOMAIN rnd

(* rnd: the random draws of the call.  A cell is in DOMAIN rnd when its    *)
(* random.random() is below 0.1, and rnd[cell] is then what                *)
(* random.randint(3, 6) returns.                                           *)
(* Line 72: y > 2 and random.random() < 0.1                                *)
tree_gate(y, wx, wz, rnd) == y > 2 * 16 /\ <<wx, wz>> \in DOMAIN rnd

generate_cell(w, chunk_pos, x, z, rnd) ==
    LET wx == chunk_pos[1] * chunk_size + x
        wz == chunk_pos[2] * chunk_size + z
        biome == biome_get(w.biome_map, <<wx \div 4, wz \div 4>>, 0)
        w1 == get_noise(w, wx, wz)
        height == w1.ret
        detail == noise2(wx * 3 * 20, wz * 3 * 20)
        y == height + detail
        color == get_biome_color(biome, y)
        w2 == get_chunk_entity(w1)
        entity == w2.ret
        w3 == [w2 EXCEPT !.entities[entity] = ground_block(@, wx, y, wz, color)]
        w4 == IF tree_gate(y, wx, wz, rnd)
              THEN generate_procedural_tree(w3, wx, y + 16, wz, rnd[<<wx, wz>>])
              ELSE w3
    IN  [w4 EXCEPT !.ret = entity]

RECURSIVE generate_cells(_, _, _, _, _)
generate_cells(w, chunk_pos, k, chunk_entities, rnd) ==
    IF k >= chunk_size * chunk_size
    THEN [w EXCEPT !.loaded_chunks = dict_set(@, chunk_pos, chunk_entities)]
    ELSE LET w1 == generate_cell(w, chunk_pos, k \div chunk_size,
                                 k % chunk_size, rnd)
         IN  generate_cells(w1, chunk_pos, k + 1,
                            Append(chunk_entities, w1.ret), rnd)

(* w.calls is the log of the generate_chunk / unload_chunk calls made      *)
(* since the current operation started; hit tells whether chunk_pos was in *)
(* loaded_chunks when the call began.                                      *)
logged(w, op, chunk_pos) ==
    [w EXCEPT !.calls = Append(@, [op |-> op, arg |-> chunk_pos,
                                   hit |-> chunk_pos \in
                                               dict_keyset(w.loaded_chunks)])]

generate_chunk(w, chunk_pos, rnd) ==
    generate_cells(logged(w, "generate", chunk_pos), chunk_pos, 0, <<>>, rnd)

(* release that disables the handles but never pools them *)
RECURSIVE release_all_dropped(_, _, _)
release_all_dropped(w, ents, i) ==
    IF i > Len(ents) THEN w
    ELSE release_all_dropped([w EXCEPT !.entities[ents[i]].enabled = FALSE],
                             ents, i + 1)

RECURSIVE release_all(_, _, _)
release_all(w, ents, i) ==
    IF i > Len(ents) THEN w
    ELSE release_all([w EXCEPT !.entities[ents[i]].enabled = FALSE,
                               !.chunk_pool = Append(@, ents[i])],
                     ents, i + 1)

(* unload over a dict that creates a missing key on access *)
unload_chunk_defaultdict(w, chunk_pos) ==
    IF chunk_pos \in dict_keyset(w.loaded_chunks)
    THEN LET w1 == release_all(logged(w, "unload", chunk_pos),
                               dict_get(w.loaded_chunks, chunk_pos), 1)
         IN  [w1 EXCEPT !.loaded_chunks = dict_del(@, chunk_pos)]
    ELSE [logged(w, "unload", chunk_pos)
              EXCEPT !.loaded_chunks = dict_set(@, chunk_pos, <<>>)]

(* unload that pools the handles and keeps the chunk's entry *)
unload_chunk_keep_entry(w, chunk_pos) ==
    IF chunk_pos \in dict_keyset(w.loaded_chunks)
    THEN release_all(logged(w, "unload", chunk_pos),
                     dict_get(w.loaded_chunks, chunk_pos), 1)
    ELSE logged(w, "unload", chunk_pos)

unload_chunk(w, chunk_pos) ==
    IF chunk_pos \in dict_keyset(w.loaded_chunks)
    THEN LET w1 == release_all(logged(w, "unload", chunk_pos),
                               dict_get(w.loaded_chunks, chunk_pos), 1)
         IN  [w1 EXCEPT !.loaded_chunks = dict_del(@, chunk_pos)]
    ELSE logged(w, "unload", chunk_pos)

(***************************************************************************)
(* Streaming loop                                                          *)
(***************************************************************************)
(* chunk of a position with the quotient rounded towards zero,            *)
(* int(a / chunk_size)                                                     *)
get_chunk_trunc(pos) ==
    LET q(a) == IF a < 0 THEN -((-a) \div chunk_size) ELSE a \div chunk_size
    IN  <<q(pos[1]), q(pos[2])>>

(* pos is (x, z) of player.position; int(a // chunk_size) is the floor     *)
get_chunk(pos) == <<pos[1] \div chunk_size, pos[2] \div chunk_size>>

(* load pass whose membership test looks up (cz, cx) *)
RECURSIVE load_pass_swapped_key(_, _, _, _)
load_pass_swapped_key(w, coords, i, rnd) ==
    IF i > Len(coords) THEN w
    ELSE IF <<coords[i][2], coords[i][1]>> \notin dict_keyset(w.loaded_chunks)
         THEN load_pass_swapped_key(generate_chunk(w, coords[i], rnd),
                                    coords, i + 1, rnd)
         ELSE load_pass_swapped_key(w, coords, i + 1, rnd)

RECURSIVE load_pass(_, _, _, _)
load_pass(w, coords, i, rnd) ==
    IF i > Len(coords) THEN w
    ELSE IF coords[i] \notin dict_keyset(w.loaded_chunks)
         THEN load_pass(generate_chunk(w, coords[i], rnd), coords, i + 1, rnd)
         ELSE load_pass(w, coords, i + 1, rnd)

(* unload pass that requires both axes to be out of range *)
RECURSIVE unload_pass_both_axes(_, _, _, _)
unload_pass_both_axes(w, keys, i, player_chunk) ==
    IF i > Len(keys) THEN w
    ELSE LET abs(a) == IF a < 0 THEN -a ELSE a
             far == /\ abs(keys[i][1] - player_chunk[1]) > render_distance
                    /\ abs(keys[i][2] - player_chunk[2]) > render_distance
         IN  IF far /\ keys[i] \in dict_keyset(w.loaded_chunks)
             THEN unload_pass_both_axes(unload_chunk(w, keys[i]),
                                        keys, i + 1, player_chunk)
             ELSE unload_pass_both_axes(w, keys, i + 1, player_chunk)

(* unload pass that also drops the chunks at distance render_distance *)
RECURSIVE unload_pass_ge(_, _, _, _)
unload_pass_ge(w, keys, i, player_chunk) ==
    IF i > Len(keys) THEN w
    ELSE LET abs(a) == IF a < 0 THEN -a ELSE a
             far == \/ abs(keys[i][1] - player_chunk[1]) >= render_distance
                    \/ abs(keys[i][2] - player_chunk[2]) >= render_distance
         IN  IF far /\ keys[i] \in dict_keyset(w.loaded_chunks)
             THEN unload_pass_ge(unload_chunk(w, keys[i]), keys, i + 1,
                                 player_chunk)
             ELSE unload_pass_ge(w, keys, i + 1, player_chunk)

RECURSIVE unload_pass(_, _, _, _)
unload_pass(w, keys, i, player_chunk) ==
    IF i > Len(keys) THEN w
    ELSE LET abs(a) == IF a < 0 THEN -a ELSE a
             far == \/ abs(keys[i][1] - player_chunk[1]) > render_distance
                    \/ abs(keys[i][2] - player_chunk[2]) > render_distance
         IN  IF far /\ keys[i] \in dict_keyset(w.loaded_chunks)
             THEN unload_pass(unload_chunk(w, keys[i]), keys, i + 1, player_chunk)
             ELSE unload_pass(w, keys, i + 1, player_chunk)

(* Lines 138-139: the coordinates the two nested ranges visit, in order,   *)
(* for a window of radius r around player_chunk                            *)
window_coords(player_chunk, r) ==
    LET side == 2 * r + 1
        cxs == range(player_chunk[1] - r, player_chunk[1] + r + 1)
        czs == range(player_chunk[2] - r, player_chunk[2] + r + 1)
    IN  [j \in 1..(side * side) |->
            <<cxs[((j - 1) \div side) + 1], czs[((j - 1) % side) + 1]>>]

(* update_chunks whose load ranges reach one chunk too far *)
update_chunks_wide_load(w, pos, rnd) ==
    LET player_chunk == get_chunk(pos)
        w1 == load_pass(w, window_coords(player_chunk, render_distance + 1),
                        1, rnd)
    IN  unload_pass(w1, dict_keys(w1.loaded_chunks), 1, player_chunk)

(* the two passes of update_chunks in the other order: lines 143-145 run   *)
(* before lines 138-141                                                    *)
update_chunks_unload_first(w, pos, rnd) ==
    LET player_chunk == get_chunk(pos)
        w1 == unload_pass(w, dict_keys(w.loaded_chunks), 1, player_chunk)
    IN  load_pass(w1, window_coords(player_chunk, render_distance), 1, rnd)

update_chunks(w, pos, rnd) ==
    LET player_chunk == get_chunk(pos)
        side == 2 * render_distance + 1
        cxs == range(player_chunk[1] - render_distance,
                     player_chunk[1] + render_distance + 1)
        czs == range(player_chunk[2] - render_distance,
                     player_chunk[2] + render_distance + 1)
        coords == [j \in 1..(side * side) |->
                      <<cxs[((j - 1) \div side) + 1], czs[((j - 1) % side) + 1]>>]
        w1 == load_pass(w, coords, 1, rnd)
    IN  unload_pass(w1, dict_keys(w1.loaded_chunks), 1, player_chunk)

(***************************************************************************)
(* State machine                                                           *)
(***************************************************************************)
World == [biome_map |-> biome_map, loaded_chunks |-> loaded_chunks,
          chunk_pool |-> chunk_pool, noise_cache |-> noise_cache,
          entities |-> entities, tree_entities |-> tree_entities,
          noise_calls |-> noise_calls, calls |-> <<>>, ret |-> 0]

(* what generate_chunk wrote for the chunk at item j of w.loaded_chunks:   *)
(* position and collider of each handle of its list                        *)
cells_of(w, j) ==
    [i \in 1..Len(w.loaded_chunks[j].entities) |->
        LET e == w.entities[w.loaded_chunks[j].entities[i]]
        IN  [position |-> e.position, collider |-> e.collider]]

(* first_gen remembers, for every chunk coordinate, the cells of its first *)
(* generation: fg extended with the chunks of w it has not seen yet        *)
first_seen(fg, w) ==
    LET new == {j \in 1..Len(w.loaded_chunks) :
                   w.loaded_chunks[j].pos \notin DOMAIN fg}
    IN  [c \in DOMAIN fg \cup {w.loaded_chunks[j].pos : j \in new} |->
            IF c \in DOMAIN fg THEN fg[c]
            ELSE cells_of(w, dict_index(w.loaded_chunks, c))]

Becomes(w) ==
    /\ biome_map' = w.biome_map
    /\ loaded_chunks' = w.loaded_chunks
    /\ chunk_pool' = w.chunk_pool
    /\ noise_cache' = w.noise_cache
    /\ entities' = w.entities
    /\ tree_entities' = w.tree_entities
    /\ noise_calls' = w.noise_calls
    /\ calls' = w.calls
    /\ first_gen' = first_seen(first_gen, w)
    /\ UNCHANGED seed_points

(* Inputs: the chunk coordinates of direct generate_chunk / unload_chunk   *)
(* calls.                                                                  *)
ChunkCoords == {<<0, 0>>, <<-1, 0>>}
(* Observer positions (x, z): the origin, a negative position whose       *)
(* window overlaps the origin's, and a distant one at the edge of the      *)
(* biome region (coarse cells 31 and 32).                                  *)
PlayerPositions ==
    {<<0, 0>>, <<1 - (render_distance + 1) * chunk_size, 1>>, <<126, 0>>}
(* The cells whose random.random() may come out below 0.1: one at the     *)
(* ground threshold (y = 2), one above it.                                 *)
TreeSites == {<<0, 1>>, <<1, 1>>}
TrunkHeights == {3, 6}
(* The draws of a call that visits the cells of the chunks cs: either no  *)
(* draw is below 0.1, or the draws at all tree sites it visits are and     *)
(* random.randint returns h.                                               *)
Draws(cs) ==
    LET visited == {s \in TreeSites : get_chunk(s) \in cs}
    IN  {<<>>} \cup {[s \in visited |-> h] : h \in TrunkHeights}
Window(pos) ==
    {c \in (get_chunk(pos)[1] - render_distance ..
            get_chunk(pos)[1] + render_distance) \X
           (get_chunk(pos)[2] - render_distance ..
            get_chunk(pos)[2] + render_distance) : TRUE}

(* last_op records the call that produced the state: its name, its chunk  *)
(* argument (for a tick, the observer's chunk) and, for generate and       *)
(* unload, whether that chunk was loaded when the call started.            *)
Init ==
    /\ seed_points \in PointLists
    /\ biome_map = generate_biome_map(seed_points)
    /\ loaded_chunks = <<>>
    /\ chunk_pool = <<>>
    /\ noise_cache = <<>>
    /\ entities = <<>>
    /\ tree_entities = <<>>
    /\ noise_calls = <<>>
    /\ player_position = <<0, 0>>
    /\ last_op = [op |-> "init", arg |-> <<0, 0>>, hit |-> FALSE]
    /\ steps = 0
    /\ calls = <<>>
    /\ first_gen = <<>>

Generate(c, rnd) ==
    /\ steps < MaxSteps
    /\ Becomes(generate_chunk(World, c, rnd))
    /\ last_op' = [op |-> "generate", arg |-> c,
                   hit |-> c \in dict_keyset(loaded_chunks)]
    /\ steps' = steps + 1
    /\ UNCHANGED player_position

Unload(c) ==
    /\ steps < MaxSteps
    /\ Becomes(unload_chunk(World, c))
    /\ last_op' = [op |-> "unload", arg |-> c,
                   hit |-> c \in dict_keyset(loaded_chunks)]
    /\ steps' = steps + 1
    /\ UNCHANGED player_position

(* One frame: update() calls update_chunks() with the player at pos (the   *)
(* weapon's ammunition counter is not part of the world).                  *)
Tick(pos, rnd) ==
    /\ steps < MaxSteps
    /\ Becomes(update_chunks(World, pos, rnd))
    /\ player_position' = pos
    /\ last_op' = [op |-> "tick", arg |-> get_chunk(pos), hit |-> FALSE]
    /\ steps' = steps + 1

Next ==
    \/ \E c \in ChunkCoords : \E rnd \in Draws({c}) : Generate(c, rnd)
    \/ \E c \in ChunkCoords : Unload(c)
    \/ \E pos \in PlayerPositions : \E rnd \in Draws(Window(pos)) :
           Tick(pos, rnd)

Spec == Init /\ [][Next]_vars

(* Executions in which the world changes only through frames: the observer *)
(* stays, moves inside its chunk, moves to an overlapping window or jumps. *)
TickPositions == PlayerPositions \cup {<<1, 1>>}

NextTick ==
    \E pos \in TickPositions : \E rnd \in Draws(Window(pos)) : Tick(pos, rnd)

TickSpec == Init /\ [][NextTick]_vars

(***************************************************************************)
(* Properties                                                              *)
(***************************************************************************)
abs(a) == IF a < 0 THEN -a ELSE a
Keys == dict_keyset(loaded_chunks)
Handles == 1..Len(entities)
(* the places that can hold a handle: <<0, i>> is the i-th element of the  *)
(* pool, <<j, i>> the i-th handle of the j-th loaded chunk                 *)
Slots ==
    {<<0, i>> : i \in 1..Len(chunk_pool)} \cup
    UNION {{<<j, i>> : i \in 1..Len(loaded_chunks[j].entities)} :
              j \in 1..Len(loaded_chunks)}
SlotHandle(s) ==
    IF s[1] = 0 THEN chunk_pool[s[2]] ELSE loaded_chunks[s[1]].entities[s[2]]
LoadedHandles == {SlotHandle(s) : s \in {t \in Slots : t[1] # 0}}
PooledHandles == {chunk_pool[i] : i \in 1..Len(chunk_pool)}
(* terrain height of a cell, in sixteenths: line 57-59 *)
TerrainY(wx, wz) == noise2(wx, wz) * 8 + noise2(wx * 60, wz * 60)

(* C1: pool conservation.  After any sequence of generate and unload calls *)
(* every handle get_chunk_entity ever allocated is in exactly one place,   *)
(* the list of one loaded chunk or the pool, and the sizes add up to the   *)
(* number of handles allocated.                                            *)
C1_PoolConservation ==
    /\ \A e \in Handles : Cardinality({s \in Slots : SlotHandle(s) = e}) = 1
    /\ Cardinality(Slots) = Len(entities)

(* C2: streaming correctness.  After every completed tick the loaded keys  *)
(* are exactly the square window of radius render_distance around the      *)
(* observer's chunk.                                                       *)
C2_StreamingCorrectness ==
    last_op.op = "tick" =>
        LET p == last_op.arg
            r == render_distance
        IN  /\ \A k \in Keys : abs(k[1] - p[1]) <= r /\ abs(k[2] - p[2]) <= r
            /\ \A cx \in (p[1] - r)..(p[1] + r), cz \in (p[2] - r)..(p[2] + r) :
                   <<cx, cz>> \in Keys
            /\ Cardinality(Keys) = (2 * r + 1) * (2 * r + 1)
            /\ Len(loaded_chunks) = Cardinality(Keys)

(* a tick far from the previous window has run: the old window is in the   *)
(* pool and the new one is loaded                                          *)
C2_Witness ==
    /\ last_op.op = "tick"
    /\ last_op.arg = get_chunk(<<126, 0>>)
    /\ Len(chunk_pool) >=
           (2 * render_distance + 1) * (2 * render_distance + 1) *
           chunk_size * chunk_size

(* C3: every handle of a loaded chunk is enabled and every pooled handle   *)
(* is disabled; a handle disabled by unload is enabled again once generate *)
(* has taken it from the pool.                                             *)
C3_ActiveIffLoaded ==
    /\ \A e \in LoadedHandles : entities[e].enabled
    /\ \A e \in PooledHandles : ~entities[e].enabled

(* C4: an unload of a loaded chunk c destroys every tree primitive that    *)
(* was spawned while c was generated: in the step in which c leaves        *)
(* loaded_chunks no tree primitive at a cell of c survives.                *)
C4_TreesDestroyedOnUnload ==
    [][\A c \in Keys \ dict_keyset(loaded_chunks') :
          \A i \in 1..Len(tree_entities') :
              get_chunk(<<tree_entities'[i].position[1],
                          tree_entities'[i].position[3]>>) # c]_vars

(* C5: unload of a coordinate that is not loaded changes nothing, so the   *)
(* second of two unloads in a row leaves the state of the first.           *)
C5_UnloadNotLoadedIsNoOp ==
    [][(last_op'.op = "unload" /\ ~last_op'.hit) =>
          UNCHANGED <<loaded_chunks, chunk_pool, noise_cache, biome_map,
                      entities, tree_entities>>]_vars

(* an unload of a chunk that is not loaded has run while the pool holds    *)
(* the handles of an earlier unload                                        *)
C5_Witness ==
    /\ last_op.op = "unload"
    /\ ~last_op.hit
    /\ chunk_pool # <<>>

(* the world cell of the i-th handle of a chunk at chunk_pos *)
CellOf(chunk_pos, i) ==
    <<chunk_pos[1] * chunk_size + (i - 1) \div chunk_size,
      chunk_pos[2] * chunk_size + ((i - 1) % chunk_size)>>
(* some loaded chunk holds handles that came back from the pool (the pool  *)
(* is popped from its end, so they are in descending order)                *)
SomeChunkReusesHandles ==
    \E j \in 1..Len(loaded_chunks) :
        /\ Len(loaded_chunks[j].entities) >= 2
        /\ loaded_chunks[j].entities[1] > loaded_chunks[j].entities[2]
InBiomeRegion(c) == c[1] \in -32..31 /\ c[2] \in -32..31
CoarseCell(e) == <<e.position[1] \div 4, e.position[3] \div 4>>

(* C6: the base noise is computed at most once per world coordinate, and   *)
(* an entry of noise_cache is never removed or overwritten, whatever       *)
(* generate, unload and tick calls follow.                                 *)
C6_NoiseCachedOnce ==
    /\ [](\A k \in DOMAIN noise_calls : noise_calls[k] <= 1)
    /\ [](DOMAIN noise_calls = DOMAIN noise_cache)
    /\ [][\A k \in DOMAIN noise_cache :
             k \in DOMAIN noise_cache' /\ noise_cache'[k] = noise_cache[k]]_vars

(* a chunk has been generated a second time (its handles are reused) and   *)
(* only its own cells were ever sampled                                    *)
C6_Witness ==
    /\ last_op.op = "generate"
    /\ SomeChunkReusesHandles
    /\ Cardinality(DOMAIN noise_cache) = chunk_size * chunk_size
    /\ \A k \in DOMAIN noise_calls : noise_calls[k] = 1

(* C7: every ground handle of a loaded chunk, fresh or reused, has a       *)
(* collider exactly when the height of its cell (cached noise plus detail) *)
(* is at most 2.                                                           *)
C7_ColliderRule ==
    \A j \in 1..Len(loaded_chunks) :
        \A i \in 1..Len(loaded_chunks[j].entities) :
            LET cell == CellOf(loaded_chunks[j].pos, i)
                e == entities[loaded_chunks[j].entities[i]]
                y == noise_cache[cell] + noise2(cell[1] * 60, cell[2] * 60)
            IN  /\ cell \in DOMAIN noise_cache
                /\ e.position = <<cell[1], y, cell[2]>>
                /\ (e.collider = "box") <=> (y <= 2 * 16)

(* a chunk holds reused handles, some with and some without a collider     *)
C7_Witness ==
    /\ SomeChunkReusesHandles
    /\ \E e \in LoadedHandles : entities[e].collider = "box"
    /\ \E e \in LoadedHandles : entities[e].collider = "none"

(* C8: no tree stands at a cell whose height is at most 2, and no cell has *)
(* both a ground handle with a collider and a tree.                        *)
C8_TreeGating ==
    \A t \in 1..Len(tree_entities) :
        LET tx == tree_entities[t].position[1]
            tz == tree_entities[t].position[3]
        IN  /\ TerrainY(tx, tz) > 2 * 16
            /\ \A e \in Handles :
                   (entities[e].position[1] = tx /\ entities[e].position[3] = tz
                       /\ entities[e].model = "cube")
                   => entities[e].collider = "none"

(* a tree stands in a loaded chunk that also has ground cells at or below  *)
(* the threshold                                                           *)
C8_Witness ==
    /\ tree_entities # <<>>
    /\ \E j \in 1..Len(loaded_chunks) :
          /\ \E t \in 1..Len(tree_entities) :
                get_chunk(<<tree_entities[t].position[1],
                            tree_entities[t].position[3]>>) = loaded_chunks[j].pos
          /\ \E i \in 1..Len(loaded_chunks[j].entities) :
                entities[loaded_chunks[j].entities[i]].collider = "box"

(* C9: every coarse cell of [-32, 32) x [-32, 32) has one biome id in      *)
(* 0..3, the lookup outside that region gives 0 (ground cells generated    *)
(* there get the colours of biome 0), and no call changes the biome map.   *)
C9_BiomeCoverage ==
    /\ \A x \in -32..31, z \in -32..31 :
           /\ biome_has(biome_map, <<x, z>>)
           /\ biome_map[x][z] \in 0..3
    /\ \A x \in {-34, -33, 32, 33}, z \in -34..33 :
           /\ biome_get(biome_map, <<x, z>>, 0) = 0
           /\ biome_get(biome_map, <<z, x>>, 0) = 0
    /\ [](\A e \in Handles :
             ~InBiomeRegion(CoarseCell(entities[e]))
             => /\ entities[e].color[1] = "green"
                /\ entities[e].color[2] = "lime")
    /\ [][biome_map' = biome_map]_vars

(* ground cells are loaded on both sides of the region's edge              *)
C9_Witness ==
    /\ \E e \in LoadedHandles : ~InBiomeRegion(CoarseCell(entities[e]))
    /\ \E e \in LoadedHandles : InBiomeRegion(CoarseCell(entities[e]))
    /\ \E x \in DOMAIN biome_map : \E z \in DOMAIN biome_map[x] :
          biome_map[x][z] # 0

(* C10: a generate call that starts with k handles in the pool allocates   *)
(* max(0, chunk_size^2 - k) fresh handles and leaves max(0, k -            *)
(* chunk_size^2) handles in the pool: it takes pooled handles from the end *)
(* of the pool first and allocates only once the pool is empty.            *)
C10_AcquireFromPoolFirst ==
    [][last_op'.op = "generate" =>
          LET k == Len(chunk_pool)
              n == chunk_size * chunk_size
              new == dict_get(loaded_chunks', last_op'.arg)
          IN  /\ Len(entities') - Len(entities) = IF n > k THEN n - k ELSE 0
              /\ Len(chunk_pool') = IF k > n THEN k - n ELSE 0
              /\ \A i \in 1..Len(chunk_pool') : chunk_pool'[i] = chunk_pool[i]
              /\ Len(new) = n
              /\ \A i \in 1..n :
                     new[i] = IF i <= k THEN chunk_pool[k - i + 1]
                              ELSE Len(entities) + (i - k)]_vars

(* a generate has run with more than a chunk's worth of handles pooled     *)
C10_Witness ==
    /\ last_op.op = "generate"
    /\ chunk_pool # <<>>
    /\ SomeChunkReusesHandles

(* the chunk coordinates the calls of the last operation passed to op *)
CallArgs(op) == {calls[i].arg : i \in {k \in DOMAIN calls : calls[k].op = op}}
WindowChunks == (2 * render_distance + 1) * (2 * render_distance + 1)
ChunkCells == chunk_size * chunk_size
GroundPos(e) == <<entities[e].position[1], entities[e].position[3]>>

(* C11: no handle is duplicated.  After any sequence of generate and       *)
(* unload calls, repeated generate of one coordinate included, the handles *)
(* found in the pool and in the lists of the loaded chunks are pairwise    *)
(* different places' handles: none is twice in a list, in two lists, twice *)
(* in the pool, or in the pool and in a list.                              *)
C11_NoHandleDuplicated ==
    Cardinality({SlotHandle(s) : s \in Slots}) = Cardinality(Slots)

(* a loaded coordinate has been generated again while another chunk is     *)
(* loaded                                                                  *)
C11_Witness ==
    /\ last_op.op = "generate"
    /\ last_op.hit
    /\ Cardinality(Keys) = 2

(* C12: in one tick the coordinates passed to generate and those passed to *)
(* unload are disjoint, and the tick ends with the same loaded keys as the *)
(* same tick with the unload pass run before the load pass.                *)
C12_PassOrderIrrelevant ==
    [][last_op'.op = "tick" =>
          /\ {calls'[i].arg : i \in {k \in DOMAIN calls' :
                                         calls'[k].op = "generate"}}
                 \cap {calls'[i].arg : i \in {k \in DOMAIN calls' :
                                                calls'[k].op = "unload"}} = {}
          /\ \E pos \in TickPositions :
                 /\ pos = player_position'
                 /\ dict_keyset(loaded_chunks') =
                        dict_keyset(update_chunks_unload_first(
                                        World, pos, <<>>).loaded_chunks)]_vars

(* a tick has generated some chunks of its window, kept the others, and    *)
(* unloaded chunks                                                         *)
C12_Witness ==
    /\ last_op.op = "tick"
    /\ CallArgs("generate") # {}
    /\ Cardinality(CallArgs("generate")) < WindowChunks
    /\ CallArgs("unload") # {}

(* C13: whenever a chunk is loaded, its cells (world coordinate, height    *)
(* and collider of each handle, in list order) are those its coordinate    *)
(* got the first time it was generated, whatever calls came in between.    *)
C13_RegenerationRepeats ==
    \A j \in 1..Len(loaded_chunks) :
        /\ loaded_chunks[j].pos \in DOMAIN first_gen
        /\ cells_of(World, j) = first_gen[loaded_chunks[j].pos]

(* the one chunk ever generated has been unloaded and generated again on   *)
(* the handles of its first generation, with a tree in one of the two      *)
C13_Witness ==
    /\ last_op.op = "generate"
    /\ ~last_op.hit
    /\ DOMAIN first_gen = {last_op.arg}
    /\ Len(entities) = ChunkCells
    /\ SomeChunkReusesHandles
    /\ tree_entities # <<>>

(* C14: the list of a loaded chunk c has chunk_size x chunk_size ground    *)
(* handles, one at each world coordinate (cx * chunk_size + x,             *)
(* cz * chunk_size + z), each of which get_chunk maps back to c; so no     *)
(* world coordinate has ground handles of two loaded chunks.               *)
C14_ChunkCellsCoverage ==
    /\ \A j \in 1..Len(loaded_chunks) :
          LET c == loaded_chunks[j].pos
              L == loaded_chunks[j].entities
          IN  /\ Len(L) = ChunkCells
              /\ {GroundPos(L[i]) : i \in 1..Len(L)} =
                     {<<c[1] * chunk_size + x, c[2] * chunk_size + z>> :
                         x \in 0..(chunk_size - 1), z \in 0..(chunk_size - 1)}
              /\ \A i \in 1..Len(L) :
                     /\ entities[L[i]].model = "cube"
                     /\ get_chunk(GroundPos(L[i])) = c
    /\ Cardinality({GroundPos(e) : e \in LoadedHandles}) =
           ChunkCells * Len(loaded_chunks)

(* chunks with a negative, a zero and a positive coordinate are loaded     *)
C14_Witness ==
    /\ \E k \in Keys : k[1] < 0 /\ k[2] < 0
    /\ <<0, 0>> \in Keys
    /\ \E k \in Keys : k[1] > 0 /\ k[2] > 0

(* C15: the biome id of every coarse cell of [-32, 32) x [-32, 32) is the  *)
(* one derived from the seed point nearest to the cell, the earliest such  *)
(* seed in list order when several are equally near; the map stays as      *)
(* built.                                                                  *)
C15_NearestSeedFirstTie ==
    /\ \A x \in -32..31, z \in -32..31 :
           \E i \in 1..Len(seed_points) :
               /\ \A j \in 1..Len(seed_points) :
                      dist2(<<x, z>>, seed_points[i])
                          <= dist2(<<x, z>>, seed_points[j])
               /\ \A j \in 1..(i - 1) :
                      dist2(<<x, z>>, seed_points[j])
                          > dist2(<<x, z>>, seed_points[i])
               /\ biome_map[x][z] = hash(seed_points[i]) % 4
    /\ [][biome_map' = biome_map /\ seed_points' = seed_points]_vars

(* two seeds with different biome ids are equally near to the cell (0, 0)  *)
(* and nearer than the others; the cell has the id of the earlier one      *)
C15_Witness ==
    \E i, j \in 1..Len(seed_points) :
        /\ i < j
        /\ dist2(<<0, 0>>, seed_points[i]) = dist2(<<0, 0>>, seed_points[j])
        /\ \A k \in 1..Len(seed_points) :
               dist2(<<0, 0>>, seed_points[i]) <= dist2(<<0, 0>>, seed_points[k])
        /\ \A k \in 1..(i - 1) :
               dist2(<<0, 0>>, seed_points[k]) > dist2(<<0, 0>>, seed_points[i])
        /\ hash(seed_points[i]) % 4 # hash(seed_points[j]) % 4
        /\ biome_map[0][0] = hash(seed_points[i]) % 4

(* C16: when the world changes only through ticks, no generate call is     *)
(* made for a loaded coordinate, and at the end of every tick the pool and *)
(* the loaded chunks hold all the ground handles ever allocated.           *)
C16_TicksNeverOrphan ==
    /\ \A i \in DOMAIN calls : calls[i].op = "generate" => ~calls[i].hit
    /\ Len(chunk_pool) + ChunkCells * Len(loaded_chunks) = Len(entities)

(* a tick has generated chunks on pooled handles and left handles pooled   *)
C16_Witness ==
    /\ last_op.op = "tick"
    /\ CallArgs("generate") # {}
    /\ SomeChunkReusesHandles
    /\ chunk_pool # <<>>

(* C17: when the world changes only through ticks, the pool never holds    *)
(* more than one window of handles and no more than two windows of handles *)
(* are ever allocated.                                                     *)
C17_PoolAndAllocationBounded ==
    /\ Len(chunk_pool) <= WindowChunks * ChunkCells
    /\ Len(entities) <= 2 * WindowChunks * ChunkCells

(* both bounds are attained, and a later tick has generated its window on  *)
(* pooled handles                                                          *)
C17_Witness ==
    /\ Len(chunk_pool) = WindowChunks * ChunkCells
    /\ Len(entities) = 2 * WindowChunks * ChunkCells
    /\ Cardinality(CallArgs("generate")) = WindowChunks
    /\ SomeChunkReusesHandles

(* C18: a tick whose observer chunk is that of the tick just before it     *)
(* calls neither generate nor unload, spawns no tree, and leaves           *)
(* loaded_chunks, chunk_pool, noise_cache and biome_map as they were.      *)
C18_SameChunkTickIsNoOp ==
    [][(last_op.op = "tick" /\ last_op'.op = "tick"
           /\ last_op'.arg = last_op.arg) =>
          /\ calls' = <<>>
          /\ UNCHANGED <<loaded_chunks, chunk_pool, noise_cache, biome_map,
                         tree_entities>>]_vars

(* a second or later tick, with the observer at (1, 1) in the chunk of the *)
(* tick before, made no call                                               *)
C18_Witness ==
    /\ last_op.op = "tick"
    /\ steps >= 2
    /\ player_position = <<1, 1>>
    /\ calls = <<>>
    /\ Cardinality(Keys) = WindowChunks

====
